---- MODULE Spec2Model ----
(***************************************************************************)
(* A model of sciscraper's fetch / stage / score pipeline:                 *)
(*   - the web sources of webscrapers.py (DimensionsScraper and its three  *)
(*     nested scrapers), as functions of the responses the servers give;   *)
(*   - Fetcher.fetch, ScrapeFetcher, StagingFetcher and SciScraper of      *)
(*     fetch.py, as a state machine that pulls results one at a time;      *)
(*   - match_terms of docscraper.py.                                       *)
(*                                                                         *)
(* Python values.  An Optional value is a sequence of length at most one:  *)
(* None is <<>> and a present value x is <<x>>.  An obtain call returns a  *)
(* record [exc, val, trace]: exc names the exception that left the call    *)
(* ("" when it returned), val is the returned Optional, trace the requests *)
(* and sleeps the call performed, in order.                                *)
(***************************************************************************)
EXTENDS Integers, Sequences, FiniteSets, TLC

VARIABLES
    \* one DimensionsScraper.obtain call (SpecScrape)
    env,        \* the responses the servers give during the call
    phase,      \* "idle" before the call, "called" after it
    outcome,    \* what the call did: [exc, val, trace]
    \* the pipeline (Spec)
    pc,         \* where SciScraper.__call__ is
    scrapers,   \* the source of each fetcher: [first, second]
    caller,     \* who consumes the running fetch: "scrape", "flat", "branch"
    terms,      \* search_terms of the running fetch
    idx,        \* how many terms the loop of fetch has taken
    pending,    \* results of the current obtain not yet pulled
    results,    \* what the consumer has pulled so far
    obtained,   \* history: what each obtain call of the running fetch did
    prior,      \* the first round's table, as handed to the stager
    staged,     \* the stager's output
    dataframe,  \* the table the running step has produced
    error,      \* the exception that ended the run ("" when none)
    exported,   \* the table written by export_sciscrape_results (Optional)
    \* match_terms (SpecMatch)
    target,     \* the token list
    word_set,   \* the vocabulary
    freq,       \* the FreqDistAndCount returned (Optional)
    \* DocScraper.obtain (SpecDoc)
    token_list, \* the tokens extracted from the document
    target_set, \* the words of target_words_file
    bycatch_set,\* the words of bycatch_words_file
    doc         \* what the call did: [calc, val] (Optional)

scrapeVars == <<env, phase, outcome>>
pipeVars == <<pc, scrapers, caller, terms, idx, pending, results, obtained,
              prior, staged, dataframe, error, exported>>
matchVars == <<target, word_set, freq>>
docVars == <<token_list, target_set, bycatch_set, doc>>
vars == <<scrapeVars, pipeVars, matchVars, docVars>>

----------------------------------------------------------------------------
(* Bounds *)

\* the longest list of search terms a serializer or stager hands to fetch
MaxQueries == 2
\* the longest token list match_terms is applied to (the docstring example aside)
MaxTokens == 4

----------------------------------------------------------------------------
(* Python values *)

None == <<>>
Some(x) == <<x>>

\* str(x) of an Optional: str(None) is the text "None"
PyStr(opt) == IF opt = None THEN <<"None">> ELSE opt[1]

\* dict.get(key) on a mapping given as a function
DictGet(d, key) == IF key \in DOMAIN d THEN Some(d[key]) ELSE None

Returned(val, trace) == [exc |-> "", val |-> val, trace |-> trace]
Raised(exc, trace) == [exc |-> exc, val |-> None, trace |-> trace]

Request(who) == <<"request", who>>
Sleep(who) == <<"sleep", who>>

----------------------------------------------------------------------------
(* webscrapers.py *)

DIMENSIONS_AI_KEYS ==
    [title |-> "title", pub_date |-> "pub_date", doi |-> "doi",
     internal_id |-> "id", journal_title |-> "journal_title",
     times_cited |-> "times_cited", author_list |-> "author_list",
     citations |-> "cited_dimensions_ids", keywords |-> "mesh_terms"]

ApiFields == {DIMENSIONS_AI_KEYS[k] : k \in DOMAIN DIMENSIONS_AI_KEYS}

\* the record fields the three nested lookups are keyed by
KeyingApiFields == {"doi", "id", "title"}

\* The first record of the bibliographic API's answer to search_text: every
\* field it carries is the value of that field for that query.
Item(search_text, missing) ==
    [f \in ApiFields \ missing |-> <<f, search_text>>]

\* The bodies a JSON endpoint answers with: text that is no JSON, an object
\* without the list key, an empty list, a first record without the wanted
\* field, a first record with it.
JsonBodies == {"notjson", "nokey", "empty", "nofield", "record"}

PrimaryResponses ==
    {[status |-> 404, body |-> "nokey", missing |-> {}]}
    \cup {[status |-> 200, body |-> b, missing |-> {}] :
             b \in {"notjson", "nokey", "empty"}}
    \cup {[status |-> 200, body |-> "record", missing |-> m] :
             m \in SUBSET KeyingApiFields}

TextResponses == {[status |-> 404], [status |-> 200]}

JsonResponses ==
    {[status |-> 404, body |-> "nokey"]}
    \cup {[status |-> 200, body |-> b] : b \in JsonBodies}

PageResponses ==
    {[status |-> 404, images |-> <<>>],
     [status |-> 200, images |-> <<>>],
     [status |-> 200, images |-> <<"fig1.png", "fig2.png">>]}

\* Everything the servers may answer during one DimensionsScraper.obtain
ScrapeEnvs ==
    [primary : PrimaryResponses, biblio : TextResponses,
     abstract : JsonResponses, search : JsonResponses, page : PageResponses]

\* CitationScraper.obtain: one request, the text on success
CitationObtain(search_text, e) ==
    LET trace == <<Request("citation")>>
    IN  IF e.biblio.status = 200
        THEN Returned(Some(<<"biblio", search_text>>), trace)
        ELSE Returned(None, trace)

\* SummaryScraper.obtain: one request, then str(docs[0].get("abstract"))
SummaryObtain(search_text, e) ==
    LET trace == <<Request("summary")>>
        r == e.abstract
    IN  IF r.status # 200 THEN Returned(None, trace)
        ELSE CASE r.body = "notjson" -> Raised("JSONDecodeError", trace)
               [] r.body = "nokey" -> Raised("KeyError", trace)
               [] r.body = "empty" -> Raised("IndexError", trace)
               [] r.body = "nofield" -> Returned(Some(PyStr(None)), trace)
               [] OTHER ->
                    Returned(Some(PyStr(Some(<<"abstract", search_text>>))), trace)

\* get_paper_id as mutated: the IndexError of an empty result list is not
\* caught
GetPaperIdUncaught(search_text, r) ==
    CASE r.body = "notjson" -> Raised("JSONDecodeError", <<>>)
      [] r.body = "nokey" -> Raised("KeyError", <<>>)
      [] r.body = "empty" -> Raised("IndexError", <<>>)
      [] r.body = "nofield" -> Returned(None, <<>>)
      [] OTHER -> Returned(Some(<<"sha", search_text>>), <<>>)

\* SemanticFigureScraper.get_paper_id: only IndexError is caught
GetPaperId(search_text, r) ==
    CASE r.body = "notjson" -> Raised("JSONDecodeError", <<>>)
      [] r.body = "nokey" -> Raised("KeyError", <<>>)
      [] r.body = "empty" -> Returned(None, <<>>)
      [] r.body = "nofield" -> Returned(None, <<>>)
      [] OTHER -> Returned(Some(<<"sha", search_text>>), <<>>)

\* SemanticFigureScraper.get_semantic_images: the paper page's image sources
GetSemanticImages(semantic_scholar_id, e) ==
    LET trace == <<Request("figures_page")>>
        r == e.page
    IN  IF r.status # 200 THEN Returned(None, trace)
        ELSE IF r.images # <<>>
             THEN Returned(Some([i \in 1..Len(r.images) |-> r.images[i]]), trace)
             ELSE Returned(None, trace)

\* SemanticFigureScraper.obtain: title search, then the paper page
FigureObtain(search_text, e) ==
    LET trace == <<Request("figures_search")>>
    IN  IF e.search.status # 200 THEN Returned(None, trace)
        ELSE LET sha == GetPaperId(search_text, e.search)
             IN  IF sha.exc # "" THEN Raised(sha.exc, trace)
                 ELSE IF sha.val # None
                      THEN LET img == GetSemanticImages(sha.val[1], e)
                           IN  [img EXCEPT !.trace = trace \o img.trace]
                      ELSE Returned(None, trace)

\* getters of clean_response, in the dict's order: key, keying field, scraper
Getters ==
    << [key |-> "biblio", query |-> "doi", getter |-> "citation"],
       [key |-> "abstract", query |-> "internal_id", getter |-> "summary"],
       [key |-> "figures", query |-> "title", getter |-> "figures"] >>

GetterObtain(getter, search_text, e) ==
    CASE getter = "citation" -> CitationObtain(search_text, e)
      [] getter = "summary" -> SummaryObtain(search_text, e)
      [] OTHER -> FigureObtain(search_text, e)

\* DimensionsScraper.get_extra_variables: getter.obtain(data[query]), with
\* KeyError, and only KeyError, turned into None
get_extra_variables(data, query, getter, e) ==
    IF query \notin DOMAIN data
    THEN Returned(None, <<>>)
    ELSE LET r == GetterObtain(getter, data[query], e)
         IN  IF r.exc = "KeyError" THEN Returned(None, r.trace) ELSE r

\* the loop of clean_response over the getters, from getter i on
RECURSIVE RunGetters(_, _, _, _)
RunGetters(data, i, e, trace) ==
    IF i > Len(Getters)
    THEN [exc |-> "", data |-> data, trace |-> trace]
    ELSE LET g == Getters[i]
             r == get_extra_variables(data, g.query, g.getter, e)
         IN  IF r.exc # ""
             THEN [exc |-> r.exc, data |-> data, trace |-> trace \o r.trace]
             ELSE RunGetters((g.key :> r.val) @@ data, i + 1, e,
                             trace \o r.trace)

\* DimensionsScraper.clean_response
clean_response(search_text, e) ==
    LET r == e.primary
    IN  CASE r.body = "notjson" ->
                [exc |-> "JSONDecodeError", data |-> <<>>, trace |-> <<>>]
          [] r.body = "nokey" ->
                [exc |-> "KeyError", data |-> <<>>, trace |-> <<>>]
          [] r.body = "empty" ->
                [exc |-> "IndexError", data |-> <<>>, trace |-> <<>>]
          [] OTHER ->
                LET item == Item(search_text, r.missing)
                    data == [key \in DOMAIN DIMENSIONS_AI_KEYS |->
                                DictGet(item, DIMENSIONS_AI_KEYS[key])]
                IN  RunGetters(data, 1, e, <<>>)

\* DimensionsScraper.obtain
DimensionsObtain(search_text, e) ==
    LET trace == <<Request("dimensions"), Sleep("dimensions")>>
    IN  IF e.primary.status # 200
        THEN Returned(None, trace)
        ELSE LET c == clean_response(search_text, e)
             IN  IF c.exc # ""
                 THEN Raised(c.exc, trace \o c.trace)
                 ELSE Returned(Some(c.data), trace \o c.trace)

----------------------------------------------------------------------------
(* One DimensionsScraper.obtain call against every answer of the servers *)

IdleOutcome == Returned(None, <<>>)

ScrapeIdle ==
    /\ env = [primary |-> [status |-> 404, body |-> "nokey", missing |-> {}],
              biblio |-> [status |-> 404],
              abstract |-> [status |-> 404, body |-> "nokey"],
              search |-> [status |-> 404, body |-> "nokey"],
              page |-> [status |-> 404, images |-> <<>>]]
    /\ phase = "idle"
    /\ outcome = IdleOutcome

\* scraper.obtain(search_text) on a DimensionsScraper
ObtainCall ==
    /\ UNCHANGED <<pipeVars, matchVars, docVars>>
    /\ phase = "idle"
    /\ \E search_text \in 1..MaxQueries :
          outcome' = DimensionsObtain(search_text, env)
    /\ phase' = "called"
    /\ UNCHANGED env

\* scraper.obtain(title) on a SemanticFigureScraper
FigureCall ==
    /\ UNCHANGED <<pipeVars, matchVars, docVars>>
    /\ phase = "idle"
    /\ \E search_text \in 1..MaxQueries :
          outcome' = FigureObtain(<<"title", search_text>>, env)
    /\ phase' = "figures"
    /\ UNCHANGED env

----------------------------------------------------------------------------
(* fetch.py: tables *)

NA == None

\* pd.DataFrame(results): one row per result, the columns its fields
DataFrame(rs) ==
    [cols |-> IF rs = <<>> THEN {} ELSE DOMAIN rs[1], rows |-> rs]

\* pd.Series(src_titles, dtype="string", name="source_titles"); data=None
\* gives the empty series
SourceTitles(src_titles) ==
    [cols |-> {"source_titles"},
     rows |-> IF src_titles.iterable
              THEN [i \in 1..Len(src_titles.items) |->
                       [c \in {"source_titles"} |-> Some(src_titles.items[i])]]
              ELSE <<>>]

\* a left join on the positional index, as mutated: an inner join
JoinInner(left, right) ==
    LET n == IF Len(left.rows) < Len(right.rows)
             THEN Len(left.rows) ELSE Len(right.rows)
    IN  [cols |-> left.cols \cup right.cols,
         rows |-> [i \in 1..n |->
                     [c \in left.cols \cup right.cols |->
                        IF c \in left.cols THEN left.rows[i][c]
                        ELSE right.rows[i][c]]]]

\* left.join(right) of pandas on two tables with a RangeIndex: a left join,
\* every row of left kept, the columns of right filled by position and NA
\* where right has no such row
Join(left, right) ==
    [cols |-> left.cols \cup right.cols,
     rows |-> [i \in 1..Len(left.rows) |->
                 [c \in left.cols \cup right.cols |->
                    IF c \in left.cols THEN left.rows[i][c]
                    ELSE IF i <= Len(right.rows) THEN right.rows[i][c]
                    ELSE NA]]]

\* join raises ValueError when the two tables share a column
ColumnsOverlap(left, right) == left.cols \cap right.cols # {}

\* SciScraper.remove_empty_columns: dropna(how="all", axis=1)
remove_empty_columns(df) ==
    LET keep == {c \in df.cols : \E i \in 1..Len(df.rows) : df.rows[i][c] # NA}
    IN  [cols |-> keep,
         rows |-> [i \in 1..Len(df.rows) |-> [c \in keep |-> df.rows[i][c]]]]

EmptyTable == [cols |-> {}, rows |-> <<>>]

----------------------------------------------------------------------------
(* fetch.py: the sources a Fetcher drives *)

ScraperKinds == {"dimensions", "expander"}

\* The answers of the servers the pipeline is run against: every lookup
\* succeeds, the primary request is refused, the primary answer has no record.
OkEnv ==
    [primary |-> [status |-> 200, body |-> "record", missing |-> {}],
     biblio |-> [status |-> 200],
     abstract |-> [status |-> 200, body |-> "record"],
     search |-> [status |-> 200, body |-> "record"],
     page |-> [status |-> 200, images |-> <<"fig1.png", "fig2.png">>]]
NotFoundEnv == [OkEnv EXCEPT !.primary.status = 404]
EmptyDocsEnv == [OkEnv EXCEPT !.primary.body = "empty"]

Answers(kind) ==
    IF kind = "dimensions" THEN {"ok", "notfound", "emptydocs"}
    ELSE {"none", "one", "many"}

\* an opaque result of the expanding source: the j-th result of a query
Receipt(term, j) == [receipt |-> Some(<<"receipt", term, j>>)]

\* A source that expands a query into zero, one or many results: obtain
\* returns None, one result, or a generator of results.
ExpanderObtain(term, answer) ==
    CASE answer = "none" -> [exc |-> "", isgen |-> FALSE, val |-> None]
      [] answer = "one" ->
            [exc |-> "", isgen |-> FALSE, val |-> Some(Receipt(term, 1))]
      [] OTHER ->
            [exc |-> "", isgen |-> TRUE,
             val |-> <<Receipt(term, 1), Receipt(term, 2)>>]

\* self.scraper.obtain(term): isgen tells a generator from a single Optional
ScraperObtain(kind, term, answer) ==
    IF kind = "dimensions"
    THEN LET r == DimensionsObtain(term,
                     CASE answer = "ok" -> OkEnv
                       [] answer = "notfound" -> NotFoundEnv
                       [] OTHER -> EmptyDocsEnv)
         IN  [exc |-> r.exc, isgen |-> FALSE, val |-> r.val]
    ELSE ExpanderObtain(term, answer)

\* the body of fetch's loop, as mutated: an absent result yields a blank row
FetchYieldsPlaceholder(r) ==
    IF r.isgen THEN r.val
    ELSE IF r.val # None THEN <<r.val[1]>> ELSE <<[receipt |-> None]>>

\* the body of fetch's loop: what it yields for one obtain result
FetchYields(r) ==
    IF r.isgen THEN r.val
    ELSE IF r.val # None THEN <<r.val[1]>> ELSE <<>>

----------------------------------------------------------------------------
(* fetch.py: the stager's output *)

Range(n) == [i \in 1..n |-> i]

\* a member of a staged tuple: a list of n entries, or a value that is no
\* sequence (None)
ListOf(n) == [iterable |-> TRUE, items |-> Range(n)]
NoList == [iterable |-> FALSE, items |-> <<>>]

StagedList(n) == [type |-> "list", terms |-> Range(n), members |-> <<>>]
StagedTuple(ms) == [type |-> "tuple", terms |-> <<>>, members |-> ms]
StagedOther == [type |-> "other", terms |-> <<>>, members |-> <<>>]

\* What a stager may return for a table: a list of queries; a pair of lists
\* (queries, provenance), of equal length or not; a pair with a member that
\* is no list; a tuple of one or of three lists; a value that is neither a
\* list nor a tuple.
StagedOutputs ==
    {StagedList(n) : n \in 0..MaxQueries}
    \cup {StagedTuple(<<ListOf(m), ListOf(p)>>) :
             m \in 0..MaxQueries, p \in 0..MaxQueries}
    \cup {StagedTuple(<<ListOf(m), NoList>>) : m \in 1..MaxQueries}
    \cup {StagedTuple(<<NoList, ListOf(1)>>),
          StagedTuple(<<ListOf(1)>>),
          StagedTuple(<<ListOf(1), ListOf(1), ListOf(1)>>),
          StagedOther}

NoStaged == [type |-> "none", terms |-> <<>>, members |-> <<>>]

----------------------------------------------------------------------------
(* fetch.py: the run *)

PipeIdle ==
    /\ pc = "idle"
    /\ scrapers = [first |-> "dimensions", second |-> "dimensions"]
    /\ caller = "none"
    /\ terms = <<>>
    /\ idx = 0
    /\ pending = <<>>
    /\ results = <<>>
    /\ obtained = <<>>
    /\ prior = EmptyTable
    /\ staged = NoStaged
    /\ dataframe = EmptyTable
    /\ error = ""
    /\ exported = None

\* self.fetch(search_terms): a generator that has not run yet
StartFetch(who, search_terms) ==
    /\ pc' = "fetch"
    /\ caller' = who
    /\ terms' = search_terms
    /\ idx' = 0
    /\ pending' = <<>>
    /\ results' = <<>>
    /\ obtained' = <<>>

Raise(exc) ==
    /\ pc' = "raised"
    /\ error' = exc

FetchScraper == IF caller = "scrape" THEN scrapers.first ELSE scrapers.second

\* ScrapeFetcher.__call__ up to list(self.fetch(search_terms))
ScrapeCall ==
    /\ UNCHANGED <<scrapeVars, matchVars, docVars>>
    /\ pc = "start"
    /\ \E n \in 0..MaxQueries : StartFetch("scrape", Range(n))
    /\ UNCHANGED <<scrapers, prior, staged, dataframe, error, exported>>

\* the loop of fetch as mutated: obtain is called for the next term while
\* results of the last obtain are still to be pulled
FetchObtainEager ==
    /\ UNCHANGED <<scrapeVars, matchVars, docVars>>
    /\ pc = "fetch"
    /\ idx < Len(terms)
    /\ idx' = idx + 1
    /\ \E answer \in Answers(FetchScraper) :
          LET r == ScraperObtain(FetchScraper, terms[idx + 1], answer)
          IN  /\ obtained' = Append(obtained, [term |-> terms[idx + 1],
                    exc |-> r.exc, isgen |-> r.isgen, val |-> r.val])
              /\ IF r.exc # ""
                 THEN /\ Raise(r.exc)
                      /\ UNCHANGED pending
                 ELSE /\ pending' = pending \o FetchYields(r)
                      /\ UNCHANGED <<pc, error>>
    /\ UNCHANGED <<scrapers, caller, terms, results, prior, staged,
                   dataframe, exported>>

\* Fetcher.fetch resumed with nothing left of the last obtain: the loop
\* takes the next term and calls obtain
FetchObtain ==
    /\ UNCHANGED <<scrapeVars, matchVars, docVars>>
    /\ pc = "fetch"
    /\ pending = <<>>
    /\ idx < Len(terms)
    /\ idx' = idx + 1
    /\ \E answer \in Answers(FetchScraper) :
          LET r == ScraperObtain(FetchScraper, terms[idx + 1], answer)
          IN  /\ obtained' = Append(obtained, [term |-> terms[idx + 1],
                    exc |-> r.exc, isgen |-> r.isgen, val |-> r.val])
              /\ IF r.exc # ""
                 THEN /\ Raise(r.exc)
                      /\ UNCHANGED pending
                 ELSE /\ pending' = FetchYields(r)
                      /\ UNCHANGED <<pc, error>>
    /\ UNCHANGED <<scrapers, caller, terms, results, prior, staged,
                   dataframe, exported>>

\* Fetcher.fetch yields one result and list() stores it
FetchYield ==
    /\ UNCHANGED <<scrapeVars, matchVars, docVars>>
    /\ pc = "fetch"
    /\ pending # <<>>
    /\ results' = Append(results, Head(pending))
    /\ pending' = Tail(pending)
    /\ UNCHANGED <<pc, scrapers, caller, terms, idx, obtained, prior, staged,
                   dataframe, error, exported>>

FetchExhausted == pc = "fetch" /\ pending = <<>> /\ idx = Len(terms)

\* ScrapeFetcher.__call__ once the fetch is exhausted (no title_serializer)
ScrapeReturn ==
    /\ UNCHANGED <<scrapeVars, matchVars, docVars>>
    /\ FetchExhausted
    /\ caller = "scrape"
    /\ dataframe' = DataFrame(results)
    /\ pc' = "stage"
    /\ UNCHANGED <<scrapers, caller, terms, idx, pending, results, obtained,
                   prior, staged, error, exported>>

\* SciScraper.__call__ without a stager: the table is kept as it is
StagerSkip ==
    /\ UNCHANGED <<scrapeVars, matchVars, docVars>>
    /\ pc = "stage"
    /\ pc' = "post"
    /\ UNCHANGED <<scrapers, caller, terms, idx, pending, results, obtained,
                   prior, staged, dataframe, error, exported>>

\* StagingFetcher.__call__: the stager runs and its output is dispatched on.
\* A tuple is unpacked into two names (ValueError unless it has two members)
\* and fetch iterates its first member (TypeError when that is no sequence).
StagingCall ==
    /\ UNCHANGED <<scrapeVars, matchVars, docVars>>
    /\ pc = "stage"
    /\ prior' = dataframe
    /\ \E out \in StagedOutputs :
          /\ staged' = out
          /\ CASE out.type = "list" ->
                    /\ StartFetch("flat", out.terms)
                    /\ UNCHANGED error
               [] out.type = "tuple" /\ Len(out.members) # 2 ->
                    /\ Raise("ValueError")
                    /\ UNCHANGED <<caller, terms, idx, pending, results,
                                   obtained>>
               [] out.type = "tuple" /\ Len(out.members) = 2
                     /\ ~out.members[1].iterable ->
                    /\ Raise("TypeError")
                    /\ UNCHANGED <<caller, terms, idx, pending, results,
                                   obtained>>
               [] out.type = "tuple" /\ Len(out.members) = 2
                     /\ out.members[1].iterable ->
                    /\ StartFetch("branch", out.members[1].items)
                    /\ UNCHANGED error
               [] OTHER ->
                    /\ Raise("ValueError")
                    /\ UNCHANGED <<caller, terms, idx, pending, results,
                                   obtained>>
    /\ UNCHANGED <<scrapers, dataframe, exported>>

\* fetch_from_staged_series once the fetch is exhausted
FlatReturn ==
    /\ UNCHANGED <<scrapeVars, matchVars, docVars>>
    /\ FetchExhausted
    /\ caller = "flat"
    /\ LET dataframe_ext == DataFrame(results)
       IN  IF ColumnsOverlap(prior, dataframe_ext)
           THEN /\ Raise("ValueError")
                /\ UNCHANGED dataframe
           ELSE /\ dataframe' = Join(prior, dataframe_ext)
                /\ pc' = "post"
                /\ UNCHANGED error
    /\ UNCHANGED <<scrapers, caller, terms, idx, pending, results, obtained,
                   prior, staged, exported>>

\* fetch_with_staged_reference as mutated: the provenance column is joined
\* onto the prior table
BranchReturnOntoPrior ==
    /\ UNCHANGED <<scrapeVars, matchVars, docVars>>
    /\ FetchExhausted
    /\ caller = "branch"
    /\ LET ref_dataframe == prior
           src_titles == SourceTitles(staged.members[2])
       IN  IF ColumnsOverlap(ref_dataframe, src_titles)
           THEN /\ Raise("ValueError")
                /\ UNCHANGED dataframe
           ELSE /\ dataframe' = Join(ref_dataframe, src_titles)
                /\ pc' = "post"
                /\ UNCHANGED error
    /\ UNCHANGED <<scrapers, caller, terms, idx, pending, results, obtained,
                   prior, staged, exported>>

\* fetch_with_staged_reference once the fetch is exhausted
BranchReturn ==
    /\ UNCHANGED <<scrapeVars, matchVars, docVars>>
    /\ FetchExhausted
    /\ caller = "branch"
    /\ LET ref_dataframe == DataFrame(results)
           src_titles == SourceTitles(staged.members[2])
       IN  IF ColumnsOverlap(ref_dataframe, src_titles)
           THEN /\ Raise("ValueError")
                /\ UNCHANGED dataframe
           ELSE /\ dataframe' = Join(ref_dataframe, src_titles)
                /\ pc' = "post"
                /\ UNCHANGED error
    /\ UNCHANGED <<scrapers, caller, terms, idx, pending, results, obtained,
                   prior, staged, exported>>

\* SciScraper.__call__ after the stager: empty columns are removed and the
\* table is exported
Export ==
    /\ UNCHANGED <<scrapeVars, matchVars, docVars>>
    /\ pc = "post"
    /\ exported' = Some(remove_empty_columns(dataframe))
    /\ pc' = "done"
    /\ UNCHANGED <<scrapers, caller, terms, idx, pending, results, obtained,
                   prior, staged, dataframe, error>>

----------------------------------------------------------------------------
(* docscraper.py: match_terms *)

\* Counter(words): the (word, count) pairs in the order the words were first
\* met, after the first n words
RECURSIVE Counter(_, _)
Counter(words, n) ==
    IF n = 0 THEN <<>>
    ELSE LET c == Counter(words, n - 1)
             w == words[n]
         IN  IF \E k \in 1..Len(c) : c[k][1] = w
             THEN [k \in 1..Len(c) |->
                     IF c[k][1] = w THEN <<w, c[k][2] + 1>> ELSE c[k]]
             ELSE Append(c, <<w, 1>>)

RemoveAt(seq, k) == [i \in 1..(Len(seq) - 1) |-> IF i < k THEN seq[i] ELSE seq[i + 1]]

\* most_common as mutated: among equal counts the pair met last comes first
RECURSIVE most_common_last(_, _)
most_common_last(items, n) ==
    IF n = 0 \/ items = <<>> THEN <<>>
    ELSE LET k == CHOOSE k \in 1..Len(items) :
                    /\ \A j \in 1..Len(items) : items[j][2] <= items[k][2]
                    /\ \A j \in (k + 1)..Len(items) : items[j][2] < items[k][2]
         IN  <<items[k]>> \o most_common_last(RemoveAt(items, k), n - 1)

\* Counter.most_common(n): heapq.nlargest(n, items, key=count), which is
\* sorted(items, key=count, reverse=True)[:n]: a stable sort, so among equal
\* counts the pair met first comes first
RECURSIVE most_common(_, _)
most_common(items, n) ==
    IF n = 0 \/ items = <<>> THEN <<>>
    ELSE LET k == CHOOSE k \in 1..Len(items) :
                    /\ \A j \in 1..Len(items) : items[j][2] <= items[k][2]
                    /\ \A j \in 1..(k - 1) : items[j][2] < items[k][2]
         IN  <<items[k]>> \o most_common(RemoveAt(items, k), n - 1)

RECURSIVE SumCounts(_, _)
SumCounts(pairs, n) ==
    IF n = 0 THEN 0 ELSE SumCounts(pairs, n - 1) + pairs[n][2]

\* word in word_set as mutated: every word counts as a member
IsMemberAny(word, words) == TRUE

\* word in word_set
IsMember(word, words) == word \in words

\* match_terms as mutated: term_count sums every match, not the kept three
match_terms_all(tokens, words) ==
    LET matching == SelectSeq(tokens, LAMBDA word : IsMember(word, words))
    IN  [term_count |-> Len(matching),
         frequency_dist |-> most_common(Counter(matching, Len(matching)), 3)]

\* match_terms(target, word_set)
match_terms(tokens, words) ==
    LET matching == SelectSeq(tokens, LAMBDA word : IsMember(word, words))
        matching_terms == most_common(Counter(matching, Len(matching)), 3)
    IN  [term_count |-> SumCounts(matching_terms, Len(matching_terms)),
         frequency_dist |-> matching_terms]

\* the words token lists and vocabularies are drawn from
Alphabet == {"a", "b", "d", "f"}

\* the word list and the word set of the docstring's example
ExampleWordList ==
    <<"a", "a", "b", "c", "d", "d", "d", "d", "c", "a", "f", "f", "f", "g", "d">>
ExampleWordSet == {"a", "b", "f"}

TokenLists ==
    UNION {[1..n -> Alphabet] : n \in 0..MaxTokens} \cup {ExampleWordList}

\* match_terms is called on the token list
MatchTermsCall ==
    /\ UNCHANGED <<scrapeVars, pipeVars, docVars>>
    /\ freq = None
    /\ freq' = Some(match_terms(target, word_set))
    /\ UNCHANGED <<target, word_set>>

----------------------------------------------------------------------------
(* match_terms, idle *)

MatchIdle ==
    /\ target = <<>>
    /\ word_set = {}
    /\ freq = None

----------------------------------------------------------------------------
(* DocScraper.obtain *)

\* WordscoreCalculator(target_count, bycatch_count, total_length)(): a pure
\* function of its three integers, giving five measures; each measure is kept
\* as an uninterpreted term of the three
WordscoreCalculator(target_count, bycatch_count, total_length) ==
    [f \in {"probability", "expectation", "variance", "standard_deviation",
            "skewness"} |-> <<f, target_count, bycatch_count, total_length>>]

\* obtain as mutated: the two counts change places in the calculator's call
DocObtainSwapped(tokens, targets, bycatches) ==
    LET tgt == match_terms(tokens, targets)
        byc == match_terms(tokens, bycatches)
        relevance_result ==
            WordscoreCalculator(byc.term_count, tgt.term_count, Len(tokens))
    IN  [calc |-> <<byc.term_count, tgt.term_count, Len(tokens)>>,
         val |-> [matching_terms |-> tgt.term_count,
                  bycatch_terms |-> byc.term_count,
                  total_length |-> Len(tokens),
                  wordscore |-> relevance_result["probability"],
                  expectation |-> relevance_result["expectation"],
                  variance |-> relevance_result["variance"],
                  standard_deviation |-> relevance_result["standard_deviation"],
                  skewness |-> relevance_result["skewness"],
                  target_freq |-> tgt.frequency_dist,
                  bycatch_freq |-> byc.frequency_dist]]

\* DocScraper.obtain from the token list on: calc is the argument list the
\* calculator is built with, val the DocumentResult returned
DocObtain(tokens, targets, bycatches) ==
    LET tgt == match_terms(tokens, targets)
        byc == match_terms(tokens, bycatches)
        relevance_result ==
            WordscoreCalculator(tgt.term_count, byc.term_count, Len(tokens))
    IN  [calc |-> <<tgt.term_count, byc.term_count, Len(tokens)>>,
         val |-> [matching_terms |-> tgt.term_count,
                  bycatch_terms |-> byc.term_count,
                  total_length |-> Len(tokens),
                  wordscore |-> relevance_result["probability"],
                  expectation |-> relevance_result["expectation"],
                  variance |-> relevance_result["variance"],
                  standard_deviation |-> relevance_result["standard_deviation"],
                  skewness |-> relevance_result["skewness"],
                  target_freq |-> tgt.frequency_dist,
                  bycatch_freq |-> byc.frequency_dist]]

\* the sets unpack_txt_files may give
Vocabularies == SUBSET Alphabet

\* scraper.obtain(search_text) on a DocScraper
DocObtainCall ==
    /\ UNCHANGED <<scrapeVars, pipeVars, matchVars>>
    /\ doc = None
    /\ doc' = Some(DocObtain(token_list, target_set, bycatch_set))
    /\ UNCHANGED <<token_list, target_set, bycatch_set>>

DocIdle ==
    /\ token_list = <<>>
    /\ target_set = {}
    /\ bycatch_set = {}
    /\ doc = None

----------------------------------------------------------------------------
(* Specifications *)

\* a run of SciScraper.__call__, for every pair of sources
Init ==
    /\ pc = "start"
    /\ scrapers \in [first : ScraperKinds, second : ScraperKinds]
    /\ caller = "none"
    /\ terms = <<>>
    /\ idx = 0
    /\ pending = <<>>
    /\ results = <<>>
    /\ obtained = <<>>
    /\ prior = EmptyTable
    /\ staged = NoStaged
    /\ dataframe = EmptyTable
    /\ error = ""
    /\ exported = None
    /\ ScrapeIdle
    /\ MatchIdle
    /\ DocIdle

Next ==
    \/ ScrapeCall
    \/ FetchObtain
    \/ FetchYield
    \/ ScrapeReturn
    \/ StagerSkip
    \/ StagingCall
    \/ FlatReturn
    \/ BranchReturn
    \/ Export

Spec == Init /\ [][Next]_vars

\* one DimensionsScraper.obtain call, or one SemanticFigureScraper.obtain
\* call, for every answer of the servers
InitScrape ==
    /\ env \in ScrapeEnvs
    /\ phase = "idle"
    /\ outcome = IdleOutcome
    /\ PipeIdle
    /\ MatchIdle
    /\ DocIdle

NextScrape ==
    \/ ObtainCall
    \/ FigureCall

SpecScrape == InitScrape /\ [][NextScrape]_vars

----------------------------------------------------------------------------
(* Claims about Fetcher.fetch *)

\* C1 (as claimed): an obtain call that fails, by a non-success response or
\* by a malformed payload, never raises out of fetch: no obtain call of a
\* fetch ends in an exception, and no fetch ends the run with one.
C1_FailedObtainNeverRaises ==
    /\ \A i \in 1..Len(obtained) : obtained[i].exc = ""
    /\ error \notin {"IndexError", "KeyError", "JSONDecodeError"}

\* what the claim says one obtain call contributes to the sequence
Contribution(o) ==
    IF o.exc # "" THEN <<>>
    ELSE IF o.isgen THEN o.val
    ELSE IF o.val = None THEN <<>> ELSE <<o.val[1]>>

RECURSIVE Concatenation(_, _)
Concatenation(calls, n) ==
    IF n = 0 THEN <<>>
    ELSE Concatenation(calls, n - 1) \o Contribution(calls[n])

\* C2: what fetch has emitted and is about to emit is the concatenation, in
\* query order, of what each obtain call returned (one element for a single
\* result, all its elements for a generator, nothing for None); obtain was
\* called on the queries in their order; and an exhausted fetch has emitted
\* the concatenation over all its queries.
C2_FetchIsConcatenation ==
    /\ results \o pending = Concatenation(obtained, Len(obtained))
    /\ Len(obtained) = idx
    /\ \A i \in 1..Len(obtained) : obtained[i].term = terms[i]
    /\ pc \in {"stage", "post", "done"} =>
          /\ idx = Len(terms)
          /\ results = Concatenation(obtained, Len(terms))

\* a fetch over two queries that ended: the first gave None, the second a
\* generator of two results
C2_Witness ==
    /\ pc = "stage"
    /\ Len(terms) = 2
    /\ obtained[1].val = None
    /\ obtained[2].isgen
    /\ Len(results) = 2

----------------------------------------------------------------------------
(* Claims about StagingFetcher *)

IsPairOfSequences(s) ==
    /\ s.type = "tuple"
    /\ Len(s.members) = 2
    /\ \A k \in 1..2 : s.members[k].iterable

\* C3 (as claimed): a list goes to flat expansion, a pair of sequences to
\* branching expansion, and every other stager output ends the run with a
\* ValueError before any fetch of the staging round has started.
C3_DispatchOnShape ==
    staged # NoStaged =>
        /\ staged.type = "list" => caller = "flat"
        /\ IsPairOfSequences(staged) => caller = "branch"
        /\ (staged.type # "list" /\ ~IsPairOfSequences(staged)) =>
              (pc = "raised" /\ error = "ValueError" /\ caller = "scrape")

\* C4 (as claimed): branching expansion over (queries, provenance) of equal
\* length returns a table of len(queries) rows whose source_titles entry of
\* row i is provenance[i].
C4_BranchRowsArePerQuery ==
    (/\ pc \in {"post", "done"}
     /\ caller = "branch"
     /\ IsPairOfSequences(staged)
     /\ Len(staged.members[1].items) = Len(staged.members[2].items)) =>
        /\ Len(dataframe.rows) = Len(staged.members[1].items)
        /\ \A i \in 1..Len(staged.members[1].items) :
              dataframe.rows[i]["source_titles"]
                  = Some(staged.members[2].items[i])

\* C5: the table flat expansion returns has as many rows as the prior table
\* and keeps every column of it, with its values, whatever the number of
\* results fetched.
C5_FlatKeepsPriorRows ==
    (pc \in {"post", "done"} /\ caller = "flat") =>
        /\ Len(dataframe.rows) = Len(prior.rows)
        /\ prior.cols \subseteq dataframe.cols
        /\ \A i \in 1..Len(prior.rows) : \A c \in prior.cols :
              dataframe.rows[i][c] = prior.rows[i][c]

\* flat expansion returned with fewer results than the prior table has rows
C5_Witness ==
    /\ pc = "post"
    /\ caller = "flat"
    /\ Len(results) > 0
    /\ Len(results) < Len(prior.rows)

----------------------------------------------------------------------------
(* Claims about DimensionsScraper.obtain *)

PrimarySucceeded ==
    /\ phase = "called"
    /\ env.primary.status = 200
    /\ env.primary.body = "record"

Requested(who) == \E i \in 1..Len(outcome.trace) : outcome.trace[i] = Request(who)

\* C6 (as claimed): with a successful primary response, no failure of a
\* secondary lookup makes obtain fail: obtain returns a result and all three
\* secondary lookups were performed.
C6_SecondaryFailureIsIsolated ==
    PrimarySucceeded =>
        /\ outcome.exc = ""
        /\ outcome.val # None
        /\ Requested("citation")
        /\ Requested("summary")
        /\ Requested("figures_search")

\* C7 (as claimed): when the first record of a successful primary response
\* lacks the internal id, the keying field of the abstract lookup, the
\* abstract of the returned result is None.
C7_MissingKeyGivesAbsent ==
    (/\ PrimarySucceeded
     /\ outcome.exc = ""
     /\ DIMENSIONS_AI_KEYS["internal_id"] \in env.primary.missing) =>
        outcome.val[1]["abstract"] = None

\* the scraper that issues a request
Issuer(who) ==
    IF who \in {"figures_search", "figures_page"} THEN "figures" ELSE who

\* C8 (as claimed): every scraper that issued a request slept its interval
\* after its last request, and no request was issued twice.
C8_EveryObtainSleeps ==
    phase = "called" =>
        LET t == outcome.trace
        IN  /\ \A i \in 1..Len(t) : t[i][1] = "request" =>
                  \E j \in (i + 1)..Len(t) : t[j] = Sleep(Issuer(t[i][2]))
            /\ \A i, j \in 1..Len(t) : (t[i] = t[j] /\ t[i][1] = "request") => i = j

----------------------------------------------------------------------------
(* match_terms on every token list and vocabulary *)

InitMatch ==
    /\ target \in TokenLists
    /\ word_set \in SUBSET Alphabet
    /\ freq = None
    /\ ScrapeIdle
    /\ PipeIdle
    /\ DocIdle

NextMatch == MatchTermsCall

SpecMatch == InitMatch /\ [][NextMatch]_vars

----------------------------------------------------------------------------
(* Claims about match_terms *)

Occurrences(word) == Cardinality({i \in 1..Len(target) : target[i] = word})

FirstMet(word) == CHOOSE i \in 1..Len(target) :
                     target[i] = word /\ \A j \in 1..(i - 1) : target[j] # word

\* C9: match_terms returns at most 3 pairs; every returned term is in the
\* vocabulary and is returned once, with its number of occurrences in the
\* token list; term_count is the sum of the returned frequencies.
C9_TopThreeCounts ==
    freq # None =>
        LET dist == freq[1].frequency_dist
        IN  /\ Len(dist) <= 3
            /\ \A i \in 1..Len(dist) :
                  /\ dist[i][1] \in word_set
                  /\ dist[i][2] = Occurrences(dist[i][1])
                  /\ \A j \in 1..Len(dist) : dist[i][1] = dist[j][1] => i = j
            /\ freq[1].term_count = SumCounts(dist, Len(dist))

\* four vocabulary terms occur: three are returned and term_count is less
\* than the number of matching tokens
C9_Witness ==
    /\ freq # None
    /\ Len(freq[1].frequency_dist) = 3
    /\ freq[1].term_count
          < Cardinality({i \in 1..Len(target) : target[i] \in word_set})

\* C10: the returned pairs are in descending frequency, equal frequencies in
\* the order the terms were first met; every vocabulary term of the token
\* list that is not returned is less frequent than every returned term, or
\* as frequent and first met later, and is left out only when three are
\* returned; and the docstring's example gives [(a,3),(f,3),(b,1)] and 7.
C10_MostFrequentFirstMet ==
    freq # None =>
        LET dist == freq[1].frequency_dist
            kept == {dist[i][1] : i \in 1..Len(dist)}
            matched == {target[i] : i \in 1..Len(target)} \cap word_set
            Before(v, w) ==
                \/ Occurrences(v) > Occurrences(w)
                \/ Occurrences(v) = Occurrences(w) /\ FirstMet(v) < FirstMet(w)
        IN  /\ \A i, j \in 1..Len(dist) : i < j => Before(dist[i][1], dist[j][1])
            /\ \A w \in matched \ kept :
                  Len(dist) = 3 /\ \A v \in kept : Before(v, w)
            /\ (target = ExampleWordList /\ word_set = ExampleWordSet) =>
                  /\ dist = << <<"a", 3>>, <<"f", 3>>, <<"b", 1>> >>
                  /\ freq[1].term_count = 7

\* match_terms has run on the docstring's example
C10_Witness ==
    /\ freq # None
    /\ target = ExampleWordList
    /\ word_set = ExampleWordSet

\* C11: an empty token list against any vocabulary, and any token list
\* against an empty vocabulary, give term_count 0 and no pair.
C11_EmptyGivesZero ==
    (freq # None /\ (target = <<>> \/ word_set = {})) =>
        /\ freq[1].term_count = 0
        /\ freq[1].frequency_dist = <<>>

\* match_terms has run on a token list of several words against the empty
\* vocabulary
C11_Witness ==
    /\ freq # None
    /\ Len(target) > 1
    /\ word_set = {}

----------------------------------------------------------------------------
(* Claims about the full run *)

\* the stager's output is neither a list nor a pair of sequences
MalformedStaged ==
    /\ staged # NoStaged
    /\ staged.type # "list"
    /\ ~IsPairOfSequences(staged)

\* C12 (as claimed): in a run whose stager returns a malformed shape the
\* export step is never reached: no table is ever written.
C12_MalformedStagingNeverExports ==
    MalformedStaged => (exported = None /\ pc # "done")

\* C13: fetch calls obtain at most once per query and in input order, and
\* once per query when it is exhausted; it calls obtain for the next query
\* only when every result of the queries before has been pulled; and an
\* exhausted fetch emits nothing further and calls obtain no more.
C13_FetchIsSequentialAndLazy ==
    /\ [](/\ Len(obtained) = idx
          /\ idx <= Len(terms)
          /\ \A i \in 1..Len(obtained) : obtained[i].term = terms[i]
          /\ pc \in {"stage", "post", "done"} => Len(obtained) = Len(terms))
    /\ [][(pc = "fetch" /\ obtained' # obtained) =>
             /\ pending = <<>>
             /\ results = Concatenation(obtained, Len(obtained))
             /\ Len(obtained') = Len(obtained) + 1
             /\ results' = results]_vars
    /\ [][FetchExhausted => (results' = results /\ obtained' = obtained)]_vars

\* the first query gave a generator of two results, both were pulled, and
\* obtain has been called for the second query
C13_Witness ==
    /\ pc = "fetch"
    /\ Len(obtained) = 2
    /\ obtained[1].isgen
    /\ Len(results) >= 2

----------------------------------------------------------------------------
(* Claims about SemanticFigureScraper.obtain *)

PositionOf(who) ==
    CHOOSE i \in 1..Len(outcome.trace) : outcome.trace[i] = Request(who)

\* C14: the title search is the first request; the paper page is requested,
\* after it, exactly when the search succeeded and its first result carries
\* an identifier; an empty result list, a non-success response at either
\* step and a page without images give None and no exception; a page with
\* images gives its image sources in document order.
C14_FigureSubProtocol ==
    phase = "figures" =>
        LET found == env.search.status = 200 /\ env.search.body = "record"
        IN  /\ outcome.trace # <<>>
            /\ outcome.trace[1] = Request("figures_search")
            /\ Requested("figures_page") <=> found
            /\ Requested("figures_page") =>
                  PositionOf("figures_search") < PositionOf("figures_page")
            /\ (\/ env.search.status # 200
                \/ env.search.body \in {"empty", "nofield"}
                \/ found /\ env.page.status # 200
                \/ found /\ env.page.images = <<>>) =>
                  (outcome.exc = "" /\ outcome.val = None)
            /\ (found /\ env.page.status = 200 /\ env.page.images # <<>>) =>
                  /\ outcome.exc = ""
                  /\ outcome.val = Some(env.page.images)

\* the search found a paper and its page has two images
C14_Witness ==
    /\ phase = "figures"
    /\ Requested("figures_page")
    /\ outcome.val # None
    /\ Len(outcome.val[1]) = 2

----------------------------------------------------------------------------
(* DocScraper.obtain on every token list and pair of vocabularies *)

InitDoc ==
    /\ token_list \in TokenLists
    /\ target_set \in Vocabularies
    /\ bycatch_set \in Vocabularies
    /\ doc = None
    /\ ScrapeIdle
    /\ PipeIdle
    /\ MatchIdle

NextDoc == DocObtainCall

SpecDoc == InitDoc /\ [][NextDoc]_vars

----------------------------------------------------------------------------
(* Claims about DocScraper.obtain *)

\* C15: the calculator is called with exactly (target term_count, bycatch
\* term_count, number of tokens), both counts being those of match_terms
\* over the one token list; the DocumentResult carries these three as
\* matching_terms, bycatch_terms and total_length, and its five statistical
\* fields are the calculator's five measures, each in its own field; an
\* empty token list gives total_length = 0 and zero counts.
C15_DocumentResultFromCounts ==
    doc # None =>
        LET t == match_terms(token_list, target_set).term_count
            b == match_terms(token_list, bycatch_set).term_count
            n == Len(token_list)
            score == WordscoreCalculator(doc[1].calc[1], doc[1].calc[2],
                                         doc[1].calc[3])
            r == doc[1].val
        IN  /\ doc[1].calc = <<t, b, n>>
            /\ r.matching_terms = t
            /\ r.bycatch_terms = b
            /\ r.total_length = n
            /\ r.wordscore = score["probability"]
            /\ r.expectation = score["expectation"]
            /\ r.variance = score["variance"]
            /\ r.standard_deviation = score["standard_deviation"]
            /\ r.skewness = score["skewness"]
            /\ token_list = <<>> =>
                  (r.total_length = 0 /\ r.matching_terms = 0
                   /\ r.bycatch_terms = 0)

\* a document whose target count (the three most frequent of four matched
\* words) differs from its bycatch count and from its length
C15_Witness ==
    /\ doc # None
    /\ doc[1].val.total_length = 4
    /\ doc[1].val.matching_terms = 3
    /\ doc[1].val.bycatch_terms = 1

----------------------------------------------------------------------------
(* Claims about the branching expansion *)

\* the fields of the fetch results
ResultFields == IF results = <<>> THEN {} ELSE DOMAIN results[1]

\* C16: the table a pair-shaped stager output gives is made of the fetch
\* results and the staged provenance only: one row per result, the columns
\* the results' fields and source_titles, row i holding the i-th result and
\* the i-th provenance entry (NA when there is none); nothing in it is read
\* from the prior table, and a column the prior table has and the results
\* have not is not in it.
C16_BranchDiscardsPrior ==
    (caller = "branch" /\ pc \in {"post", "done"}) =>
        LET provenance == staged.members[2]
        IN  /\ dataframe.cols = ResultFields \cup {"source_titles"}
            /\ Len(dataframe.rows) = Len(results)
            /\ \A i \in 1..Len(dataframe.rows) :
                  /\ \A c \in ResultFields :
                        dataframe.rows[i][c] = results[i][c]
                  /\ dataframe.rows[i]["source_titles"] =
                        IF provenance.iterable /\ i <= Len(provenance.items)
                        THEN Some(provenance.items[i]) ELSE NA
            /\ dataframe.cols \cap (prior.cols \ ResultFields) = {}

\* a branching expansion returned with a prior table of rows whose columns
\* the results do not have, and a row that has its provenance
C16_Witness ==
    /\ caller = "branch"
    /\ pc = "post"
    /\ prior.rows # <<>>
    /\ prior.cols \cap ResultFields = {}
    /\ Len(dataframe.rows) >= 1
    /\ dataframe.rows[1]["source_titles"] # NA

----------------------------------------------------------------------------
(* Claims about the order of the requests of DimensionsScraper.obtain *)

IsSecondaryRequest(step) ==
    step \in {Request("citation"), Request("summary"),
              Request("figures_search")}

\* C17 (as claimed): obtain begins with the primary request and its sleep; a
\* non-success primary response returns None with nothing issued after
\* them; with a successful primary response the secondary lookups attempted
\* are exactly the three, in the order biblio, abstract, figures.
C17_ThreeSecondariesInOrder ==
    phase = "called" =>
        LET t == outcome.trace
        IN  /\ Len(t) >= 2
            /\ t[1] = Request("dimensions")
            /\ t[2] = Sleep("dimensions")
            /\ \A i \in 3..Len(t) : t[i] # Request("dimensions")
            /\ env.primary.status # 200 =>
                  (Len(t) = 2 /\ outcome.exc = "" /\ outcome.val = None)
            /\ PrimarySucceeded =>
                  SelectSeq(t, IsSecondaryRequest) =
                      <<Request("citation"), Request("summary"),
                        Request("figures_search")>>

----------------------------------------------------------------------------
(* Claims about the flat expansion *)

\* the stager gave one query per prior row and no obtain call of the fetch
\* returned more than one result
OneQueryPerRow ==
    /\ caller = "flat"
    /\ pc \in {"post", "done"}
    /\ Len(staged.terms) = Len(prior.rows)
    /\ \A i \in 1..Len(obtained) : ~obtained[i].isgen

\* C18 (as claimed): with one query per prior row and at most one result per
\* query, the new columns of row i hold what the query staged from row i
\* gave: its result, or NA when it gave none.
C18_FlatRowsAlignWithQueries ==
    OneQueryPerRow =>
        \A i \in 1..Len(dataframe.rows) :
            \A c \in dataframe.cols \ prior.cols :
                dataframe.rows[i][c] =
                    IF obtained[i].val = None THEN NA
                    ELSE obtained[i].val[1][c]

====
